---- MODULE Spec2Model ----
(***************************************************************************)
(* A model of HELM's library root (src/src/lib.rs): the plaintext and      *)
(* encrypted value types, PtxtType::from_str and its Display, FheType::    *)
(* decrypt, get_input_wire_map and the argument interface parse_args,      *)
(* together with the scheduler / evaluator / sequential runner of the      *)
(* circuit module as the specification describes them.                     *)
(*                                                                         *)
(* Strings are sequences of one-character strings, so that parsing and     *)
(* formatting are computed character by character.  Unsigned integers are  *)
(* canonical decimal digit sequences (no leading zero, <<"0">> for zero),  *)
(* so that the 64 and 128 bit widths keep their exact range.               *)
(***************************************************************************)
EXTENDS Naturals, Sequences, FiniteSets

\* ------------------------------------------------------------------------
\* Characters, digits and unbounded decimal numerals
\* ------------------------------------------------------------------------

DigitChars == <<"0", "1", "2", "3", "4", "5", "6", "7", "8", "9">>

IsDigit(c) == \E i \in 1..Len(DigitChars) : DigitChars[i] = c

DigitVal(c) == (CHOOSE i \in 1..Len(DigitChars) : DigitChars[i] = c) - 1

IsDigits(s) == \A i \in 1..Len(s) : IsDigit(s[i])

\* The numeral 0.
Zero == <<"0">>

\* acc * 10 + d on canonical numerals: one step of the accumulation loop of
\* the standard library's integer parser.
MulAdd(acc, c) == IF acc = Zero THEN <<c>> ELSE Append(acc, c)

\* a <= b on canonical numerals.
RECURSIVE LexLeq(_, _)
LexLeq(a, b) ==
    IF a = <<>> THEN TRUE
    ELSE IF DigitVal(Head(a)) # DigitVal(Head(b))
         THEN DigitVal(Head(a)) < DigitVal(Head(b))
         ELSE LexLeq(Tail(a), Tail(b))

NumLeq(a, b) ==
    \/ Len(a) < Len(b)
    \/ Len(a) = Len(b) /\ LexLeq(a, b)

\* The largest value of each unsigned width: 2^w - 1.
MAX_U8 == <<"2", "5", "5">>
MAX_U16 == <<"6", "5", "5", "3", "5">>
MAX_U32 == <<"4", "2", "9", "4", "9", "6", "7", "2", "9", "5">>
MAX_U64 == <<"1", "8", "4", "4", "6", "7", "4", "4", "0", "7",
             "3", "7", "0", "9", "5", "5", "1", "6", "1", "5">>
MAX_U128 == <<"3", "4", "0", "2", "8", "2", "3", "6", "6", "9",
              "2", "0", "9", "3", "8", "4", "6", "3", "4", "6",
              "3", "3", "7", "4", "6", "0", "7", "4", "3", "1",
              "7", "6", "8", "2", "1", "1", "4", "5", "5">>

Widths == {"U8", "U16", "U32", "U64", "U128"}

MaxOf(w) ==
    CASE w = "U8" -> MAX_U8
      [] w = "U16" -> MAX_U16
      [] w = "U32" -> MAX_U32
      [] w = "U64" -> MAX_U64
      [] w = "U128" -> MAX_U128

\* ------------------------------------------------------------------------
\* Results, PtxtType, FheType
\* ------------------------------------------------------------------------

NoNum == <<>>

\* A call's outcome: a returned value, a returned Err, or a panic (the
\* process aborts and nothing is returned).
Ok(v) == [ok |-> TRUE, val |-> v, err |-> "-"]
Err(e) == [ok |-> FALSE, val |-> NoNum, err |-> e]
Panic == [ok |-> FALSE, val |-> NoNum, err |-> "panic"]

\* enum PtxtType { Bool(bool), U8(u8), ..., U128(u128), None }
PBool(b) == [tag |-> "Bool", b |-> b, n |-> NoNum]
PUint(w, n) == [tag |-> w, b |-> FALSE, n |-> n]
PNone == [tag |-> "None", b |-> FALSE, n |-> NoNum]

\* enum FheType { U8(FheUint8), ..., U128(FheUint128), None }: a ciphertext
\* is the value it encrypts, which only decrypt reads.
FUint(w, n) == [ftag |-> w, inner |-> n]
FNone == [ftag |-> "None", inner |-> NoNum]

\* ------------------------------------------------------------------------
\* The standard library's parsers, as the code calls them
\* ------------------------------------------------------------------------

\* The digit loop of uN::from_str: left to right, an invalid digit or an
\* overflow of the width ends it with an error.
RECURSIVE ParseDigits(_, _, _)
ParseDigits(w, acc, s) ==
    IF s = <<>> THEN Ok(acc)
    ELSE IF ~IsDigit(Head(s)) THEN Err("InvalidDigit")
    ELSE IF ~NumLeq(MulAdd(acc, Head(s)), MaxOf(w)) THEN Err("PosOverflow")
    ELSE ParseDigits(w, MulAdd(acc, Head(s)), Tail(s))

\* uN::from_str(s): empty is an error, a lone sign is an error, one leading
\* "+" is skipped (an unsigned type takes no "-"), then the digit loop.
ParseUnsigned(w, s) ==
    IF s = <<>> THEN Err("Empty")
    ELSE IF Len(s) = 1 /\ Head(s) \in {"+", "-"} THEN Err("InvalidDigit")
    ELSE IF Head(s) = "+" THEN ParseDigits(w, Zero, Tail(s))
    ELSE ParseDigits(w, Zero, s)

S_true == <<"t", "r", "u", "e">>
S_false == <<"f", "a", "l", "s", "e">>
S_None == <<"N", "o", "n", "e">>

\* bool::from_str(s)
ParseBool(s) ==
    IF s = S_true THEN Ok(TRUE)
    ELSE IF s = S_false THEN Ok(FALSE)
    ELSE Err("ParseBoolError")

\* ------------------------------------------------------------------------
\* impl FromStr for PtxtType / impl Display for PtxtType / FheType::decrypt
\* ------------------------------------------------------------------------

\* from_str trying u16 before u8.
from_str_U16First(s) ==
    IF s = S_None THEN Ok(PNone)
    ELSE IF ParseUnsigned("U16", s).ok
         THEN Ok(PUint("U16", ParseUnsigned("U16", s).val))
    ELSE IF ParseUnsigned("U32", s).ok
         THEN Ok(PUint("U32", ParseUnsigned("U32", s).val))
    ELSE IF ParseUnsigned("U64", s).ok
         THEN Ok(PUint("U64", ParseUnsigned("U64", s).val))
    ELSE IF ParseUnsigned("U128", s).ok
         THEN Ok(PUint("U128", ParseUnsigned("U128", s).val))
    ELSE Err("InvalidInput")

from_str(s) ==
    IF s = S_None THEN Ok(PNone)
    ELSE IF ParseUnsigned("U8", s).ok
         THEN Ok(PUint("U8", ParseUnsigned("U8", s).val))
    ELSE IF ParseUnsigned("U16", s).ok
         THEN Ok(PUint("U16", ParseUnsigned("U16", s).val))
    ELSE IF ParseUnsigned("U32", s).ok
         THEN Ok(PUint("U32", ParseUnsigned("U32", s).val))
    ELSE IF ParseUnsigned("U64", s).ok
         THEN Ok(PUint("U64", ParseUnsigned("U64", s).val))
    ELSE IF ParseUnsigned("U128", s).ok
         THEN Ok(PUint("U128", ParseUnsigned("U128", s).val))
    ELSE Err("InvalidInput")

\* The text of a variant's name.
TagText(tag) ==
    CASE tag = "Bool" -> <<"B", "o", "o", "l">>
      [] tag = "U8" -> <<"U", "8">>
      [] tag = "U16" -> <<"U", "1", "6">>
      [] tag = "U32" -> <<"U", "3", "2">>
      [] tag = "U64" -> <<"U", "6", "4">>
      [] tag = "U128" -> <<"U", "1", "2", "8">>

\* write!(f, "Bool({})", value), write!(f, "U8({})", value), ..., "None"
fmt(p) ==
    CASE p.tag = "None" -> S_None
      [] p.tag = "Bool" ->
            TagText(p.tag) \o <<"(">> \o (IF p.b THEN S_true ELSE S_false) \o <<")">>
      [] OTHER -> TagText(p.tag) \o <<"(">> \o p.n \o <<")">>

\* decrypt passing the None variant through instead of panicking.
decrypt_NoneThrough(f) ==
    IF f.ftag = "None" THEN Ok(PNone) ELSE Ok(PUint(f.ftag, f.inner))

decrypt(f) ==
    CASE f.ftag = "U8" -> Ok(PUint("U8", f.inner))
      [] f.ftag = "U16" -> Ok(PUint("U16", f.inner))
      [] f.ftag = "U32" -> Ok(PUint("U32", f.inner))
      [] f.ftag = "U64" -> Ok(PUint("U64", f.inner))
      [] f.ftag = "U128" -> Ok(PUint("U128", f.inner))
      [] f.ftag = "None" -> Panic

\* ------------------------------------------------------------------------
\* get_input_wire_map
\* ------------------------------------------------------------------------

\* The values of arithmetic_type the match of get_input_wire_map knows.
Modes == {"bool", "u8", "u16", "u32", "u64", "u128"}

WidthOf(arithmetic_type) ==
    CASE arithmetic_type = "u8" -> "U8"
      [] arithmetic_type = "u16" -> "U16"
      [] arithmetic_type = "u32" -> "U32"
      [] arithmetic_type = "u64" -> "U64"
      [] arithmetic_type = "u128" -> "U128"

\* Option<String>::None
NoFile == "<none>"

\* HashMap::new()
EmptyMap == [w \in {} |-> PNone]

\* HashMap::insert: a later entry of the same key replaces the earlier one.
Insert(map, k, v) == [w \in DOMAIN map \cup {k} |-> IF w = k THEN v ELSE map[w]]

\* BoolToken without the parse::<bool>() arm: only "1" is true.
BoolToken_OnlyOne(tok) == tok = <<"1">>

\* match parts[1].as_str() { "1" => true, s => s.parse::<bool>().unwrap_or(false) }
BoolToken(tok) ==
    IF tok = <<"1">> THEN TRUE
    ELSE IF ParseBool(tok).ok THEN ParseBool(tok).val
    ELSE FALSE

\* UintToken parsing at the widest type and storing at the arm's variant.
UintToken_Widened(w, tok) ==
    IF ParseUnsigned("U128", tok).ok
    THEN Ok(PUint(w, ParseUnsigned("U128", tok).val))
    ELSE Panic

\* parts[1].parse().unwrap() at the width of the arm: a parse error panics.
UintToken(w, tok) ==
    IF ParseUnsigned(w, tok).ok
    THEN Ok(PUint(w, ParseUnsigned(w, tok).val))
    ELSE Panic

\* The closure's `ptxt`: the value of one [wire, value] part.
PartValue(arithmetic_type, tok) ==
    CASE arithmetic_type = "bool" -> Ok(PBool(BoolToken(tok)))
      [] arithmetic_type \in {"u8", "u16", "u32", "u64", "u128"} ->
            UintToken(WidthOf(arithmetic_type), tok)
      [] OTHER -> Panic

\* .iter().map(..).collect::<HashMap<_, _>>(): the parts in order, each
\* mapped and inserted; a panic of the closure ends the call.
RECURSIVE Collect(_, _, _)
Collect(arithmetic_type, parts, acc) ==
    IF parts = <<>> THEN Ok(acc)
    ELSE LET part == Head(parts)
             ptxt == PartValue(arithmetic_type, part[2])
         IN IF ~ptxt.ok THEN Panic
            ELSE Collect(arithmetic_type, Tail(parts),
                         Insert(acc, part[1], ptxt.val))

\* The mode's zero: false in boolean mode, 0 in an arithmetic mode.
DefaultValue(arithmetic_type) ==
    IF arithmetic_type = "bool" THEN PBool(FALSE)
    ELSE PUint(WidthOf(arithmetic_type), Zero)

\* The records of the input files of the model: (wire, value) rows.
FileNames == {"in.csv"}
FileRecords(wire_file_name) == << <<"c", <<"1">> >>, <<"a", <<"0">> >> >>

\* verilog_parser::read_input_wires: every row of the file parsed at the
\* active mode, a malformed value falling back to the mode's default.
RECURSIVE ReadRows(_, _, _)
ReadRows(arithmetic_type, rows, acc) ==
    IF rows = <<>> THEN acc
    ELSE LET row == Head(rows)
             v == PartValue(arithmetic_type, row[2])
         IN ReadRows(arithmetic_type, Tail(rows),
                     Insert(acc, row[1],
                            IF v.ok THEN v.val ELSE DefaultValue(arithmetic_type)))

read_input_wires(wire_file_name, arithmetic_type) ==
    Ok(ReadRows(arithmetic_type, FileRecords(wire_file_name), EmptyMap))

\* get_input_wire_map whose last branch faults instead of returning a map.
get_input_wire_map_EmptyFaults(inputs_filename, wire_inputs, arithmetic_type) ==
    IF inputs_filename # NoFile
    THEN read_input_wires(inputs_filename, arithmetic_type)
    ELSE IF wire_inputs # <<>>
    THEN Collect(arithmetic_type, wire_inputs, EmptyMap)
    ELSE Panic

\* get_input_wire_map testing the pair list before the file name.
get_input_wire_map_ListFirst(inputs_filename, wire_inputs, arithmetic_type) ==
    IF wire_inputs # <<>>
    THEN Collect(arithmetic_type, wire_inputs, EmptyMap)
    ELSE IF inputs_filename # NoFile
    THEN read_input_wires(inputs_filename, arithmetic_type)
    ELSE Ok(EmptyMap)

get_input_wire_map(inputs_filename, wire_inputs, arithmetic_type) ==
    IF inputs_filename # NoFile
    THEN read_input_wires(inputs_filename, arithmetic_type)
    ELSE IF wire_inputs # <<>>
    THEN Collect(arithmetic_type, wire_inputs, EmptyMap)
    ELSE Ok(EmptyMap)

\* ------------------------------------------------------------------------
\* parse_args
\* ------------------------------------------------------------------------

\* An option that is not on the command line (NoText where the option's
\* value is text the parser reads).
NoArg == "<absent>"
NoText == <<"<absent>">>

\* PossibleValue::new("u8") ... PossibleValue::new("u128")
PossibleArithmetic == {"u8", "u16", "u32", "u64", "u128"}

\* usize on the 64-bit targets the program is built for.
USIZE == "U64"

\* .default_value("1")
DefaultCycles == <<"1">>

\* Command::get_matches over the declared arguments: the matches, or clap's
\* error exit.  argv is the command line by option: verilog, input_wires
\* (one [wire, value] pair per occurrence of -w), input_wires_file,
\* arithmetic, cycles, verbose.
parse_args(argv) ==
    LET cyclesText == IF argv.cycles = NoText THEN DefaultCycles ELSE argv.cycles
        cycles == ParseUnsigned(USIZE, cyclesText)
    IN  IF argv.verilog = NoArg THEN Err("MissingRequiredArgument")
        ELSE IF argv.input_wires # <<>> /\ argv.input_wires_file # NoArg
             THEN Err("ArgumentConflict")
        ELSE IF argv.arithmetic # NoArg /\ argv.arithmetic \notin PossibleArithmetic
             THEN Err("InvalidValue")
        ELSE IF ~cycles.ok THEN Err("ValueValidation")
        ELSE Ok([verilog |-> argv.verilog,
                 input_wires |-> argv.input_wires,
                 input_wires_file |-> argv.input_wires_file,
                 arithmetic |-> argv.arithmetic,
                 cycles |-> cycles.val,
                 verbose |-> argv.verbose])

\* ------------------------------------------------------------------------
\* Default fill of the primary inputs (Wire I/O boundary)
\* ------------------------------------------------------------------------

WireNames == {"a", "b"}
PrimaryInputs == {"a", "b", "c"}

\* The wire-value store's primary inputs seeded from the input map: a wire
\* the map does not name takes the mode's default.
SeedInputs(map, arithmetic_type) ==
    [w \in PrimaryInputs |->
        IF w \in DOMAIN map THEN map[w] ELSE DefaultValue(arithmetic_type)]

\* ------------------------------------------------------------------------
\* Inputs of the calls
\* ------------------------------------------------------------------------

MaxPairs == 2

OVER_U8 == <<"2", "5", "6">>
OVER_U16 == <<"6", "5", "5", "3", "6">>
OVER_U32 == <<"4", "2", "9", "4", "9", "6", "7", "2", "9", "6">>
OVER_U64 == <<"1", "8", "4", "4", "6", "7", "4", "4", "0", "7",
              "3", "7", "0", "9", "5", "5", "1", "6", "1", "6">>
OVER_U128 == <<"3", "4", "0", "2", "8", "2", "3", "6", "6", "9",
               "2", "0", "9", "3", "8", "4", "6", "3", "4", "6",
               "3", "3", "7", "4", "6", "0", "7", "4", "3", "1",
               "7", "6", "8", "2", "1", "1", "4", "5", "6">>

\* 2^w, the first value past the width.
OverOf(w) ==
    CASE w = "U8" -> OVER_U8
      [] w = "U16" -> OVER_U16
      [] w = "U32" -> OVER_U32
      [] w = "U64" -> OVER_U64
      [] w = "U128" -> OVER_U128

S_empty == <<>>
S_x == <<"x">>
S_True == <<"T", "r", "u", "e">>
S_plus5 == <<"+", "5">>
S_007 == <<"0", "0", "7">>

BoolTokens == {<<"1">>, <<"0">>, S_true, S_false, S_True, S_x, S_empty}

UintTokens(w) ==
    {<<"0">>, <<"1">>, S_plus5, S_007, MaxOf(w), OverOf(w), S_x, S_empty, <<"-", "1">>}

ListTokens(arithmetic_type) ==
    IF arithmetic_type = "bool" THEN BoolTokens
    ELSE UintTokens(WidthOf(arithmetic_type))

\* Every string handed to PtxtType::from_str.
Tokens ==
    BoolTokens
    \cup UNION {UintTokens(w) : w \in Widths}
    \cup {S_None, <<"+">>, <<"-">>, <<"-", "1">>, <<"1", "a">>, <<" ", "1">>,
          <<"1", ".", "0">>, <<"n", "o", "n", "e">>}

\* Every plaintext and every encrypted value of the calls.
PtxtValues ==
    {PBool(TRUE), PBool(FALSE), PNone}
    \cup {PUint(w, n) : w \in Widths, n \in {Zero, <<"5">>, MAX_U8}}
    \cup {PUint(w, MaxOf(w)) : w \in Widths}

FheValues ==
    {FNone}
    \cup {FUint(w, n) : w \in Widths, n \in {Zero, <<"5">>, MAX_U8}}
    \cup {FUint(w, MaxOf(w)) : w \in Widths}

\* Every list of at most MaxPairs [wire, value] parts of a mode.
PairLists(arithmetic_type) ==
    UNION {[1..n -> WireNames \X ListTokens(arithmetic_type)] : n \in 0..MaxPairs}

CycleTokens == {<<"0">>, <<"1">>, <<"3">>, <<"0", "0">>, <<"+", "0">>, S_plus5,
                S_x, S_empty, MAX_U64, OVER_U64}

ArgLines ==
    [verilog : {NoArg, "top.v"},
     input_wires : {<<>>, << <<"a", <<"1">> >> >>},
     input_wires_file : {NoArg, "in.csv"},
     arithmetic : {NoArg, "u8", "u128", "u7"},
     cycles : {NoText} \cup CycleTokens,
     verbose : BOOLEAN]

\* ------------------------------------------------------------------------
\* The library's calls as a state machine: one call, its arguments and what
\* it returned
\* ------------------------------------------------------------------------

VARIABLES
    op, args, ret, store,           \* the library call, its arguments, what it returned, the seeded store
    circuit, N, pin,                \* a run's netlist, cycle count and primary input value
    phase, cycle, level,            \* the sequential runner's position
    gstate, operands,               \* per gate: pending / running / done, and what it read
    values, visible, staged,        \* the wire-value store, the registers' visible and next values
    startHist, stagedHist, outputs, \* per cycle: registers at its start, staged in it, outputs
    passes, commits                 \* evaluator passes begun, register commits done

lvars == <<op, args, ret, store>>
cvars == <<circuit, N, pin, phase, cycle, level, gstate, operands, values,
           visible, staged, startHist, stagedHist, outputs, passes, commits>>
vars == <<lvars, cvars>>

\* No library call made yet.
LibIdle ==
    /\ op = "idle"
    /\ args = <<>>
    /\ ret = <<>>
    /\ store = <<>>

\* No circuit loaded.
CircuitIdle ==
    /\ circuit = <<>>
    /\ N = 0
    /\ pin = "None"
    /\ phase = "off"
    /\ cycle = 0
    /\ level = 0
    /\ gstate = <<>>
    /\ operands = <<>>
    /\ values = <<>>
    /\ visible = <<>>
    /\ staged = <<>>
    /\ startHist = <<>>
    /\ stagedHist = <<>>
    /\ outputs = <<>>
    /\ passes = 0
    /\ commits = 0

Init == LibIdle /\ CircuitIdle

CallFromStr ==
    /\ op = "idle"
    /\ \E s \in Tokens :
        /\ op' = "from_str"
        /\ args' = s
        /\ ret' = from_str(s)
    /\ UNCHANGED <<store, cvars>>

CallFmt ==
    /\ op = "idle"
    /\ \E p \in PtxtValues :
        /\ op' = "fmt"
        /\ args' = p
        /\ ret' = fmt(p)
    /\ UNCHANGED <<store, cvars>>

\* The text Display wrote, handed back to from_str.
ParseBack ==
    /\ op = "fmt"
    /\ op' = "fmt_from_str"
    /\ args' = [p |-> args, text |-> ret]
    /\ ret' = from_str(ret)
    /\ UNCHANGED <<store, cvars>>

CallDecrypt ==
    /\ op = "idle"
    /\ \E f \in FheValues :
        /\ op' = "decrypt"
        /\ args' = f
        /\ ret' = decrypt(f)
    /\ UNCHANGED <<store, cvars>>

CallGetInputWireMap ==
    /\ op = "idle"
    /\ \E arithmetic_type \in Modes :
       \E inputs_filename \in {NoFile} \cup FileNames :
       \E wire_inputs \in PairLists(arithmetic_type) :
        /\ op' = "get_input_wire_map"
        /\ args' = [inputs_filename |-> inputs_filename,
                    wire_inputs |-> wire_inputs,
                    arithmetic_type |-> arithmetic_type]
        /\ ret' = get_input_wire_map(inputs_filename, wire_inputs, arithmetic_type)
    /\ UNCHANGED <<store, cvars>>

\* The returned map seeds the primary inputs of the wire-value store.
Seed ==
    /\ op = "get_input_wire_map"
    /\ ret.ok
    /\ op' = "seed"
    /\ store' = SeedInputs(ret.val, args.arithmetic_type)
    /\ UNCHANGED <<args, ret, cvars>>

CallParseArgs ==
    /\ op = "idle"
    /\ \E argv \in ArgLines :
        /\ op' = "parse_args"
        /\ args' = argv
        /\ ret' = parse_args(argv)
    /\ UNCHANGED <<store, cvars>>

Next ==
    \/ CallFromStr
    \/ CallFmt
    \/ ParseBack
    \/ CallDecrypt
    \/ CallGetInputWireMap
    \/ Seed
    \/ CallParseArgs

Spec == Init /\ [][Next]_vars

\* ------------------------------------------------------------------------
\* What the claims speak of, stated apart from the parsers above
\* ------------------------------------------------------------------------

\* A non-empty run of ASCII digits.
IsDecimal(s) == s # <<>> /\ IsDigits(s)

\* A non-empty run of ASCII digits after at most one leading "+".
IsSignedDecimal(s) ==
    \/ IsDecimal(s)
    \/ Len(s) >= 2 /\ Head(s) = "+" /\ IsDecimal(Tail(s))

RECURSIVE StripZeros(_)
StripZeros(s) ==
    IF Len(s) > 1 /\ Head(s) = "0" THEN StripZeros(Tail(s)) ELSE s

\* The integer a (signed) decimal text denotes, as a canonical numeral.
IntValue(s) == IF Head(s) = "+" THEN StripZeros(Tail(s)) ELSE StripZeros(s)

\* The narrowest unsigned variant holding v (v at most MAX_U128).
Narrowest(v) ==
    IF NumLeq(v, MAX_U8) THEN "U8"
    ELSE IF NumLeq(v, MAX_U16) THEN "U16"
    ELSE IF NumLeq(v, MAX_U32) THEN "U32"
    ELSE IF NumLeq(v, MAX_U64) THEN "U64"
    ELSE "U128"

\* The variant of a mode.
VariantOf(arithmetic_type) ==
    IF arithmetic_type = "bool" THEN "Bool" ELSE WidthOf(arithmetic_type)

\* get_input_wire_map was called on an explicit list (no file).
OnList == op = "get_input_wire_map" /\ args.inputs_filename = NoFile
                                    /\ args.wire_inputs # <<>>

ListNames(parts) == {parts[i][1] : i \in 1..Len(parts)}

\* The value text of the last part naming wire w.
LastToken(parts, w) ==
    LET last == CHOOSE i \in 1..Len(parts) :
                    /\ parts[i][1] = w
                    /\ \A j \in (i+1)..Len(parts) : parts[j][1] # w
    IN parts[last][2]

\* A value text that is a literal of the mode.
WellFormed(arithmetic_type, tok) ==
    IF arithmetic_type = "bool"
    THEN tok \in {<<"1">>, <<"0">>, S_true, S_false}
    ELSE /\ IsSignedDecimal(tok)
         /\ NumLeq(IntValue(tok), MaxOf(WidthOf(arithmetic_type)))

\* ------------------------------------------------------------------------
\* Claims about get_input_wire_map
\* ------------------------------------------------------------------------

\* C1: for every mode and every explicit (name, token) list, the call
\* returns a map, and a wire whose token is not a literal of the mode has
\* the mode's default value (false / 0) in it: a malformed token never
\* aborts the run.
C1_MalformedTokenFallsBack ==
    OnList =>
        /\ ret.ok
        /\ \A w \in ListNames(args.wire_inputs) :
            ~WellFormed(args.arithmetic_type, LastToken(args.wire_inputs, w))
                => /\ w \in DOMAIN ret.val
                   /\ ret.val[w] = DefaultValue(args.arithmetic_type)

\* C2: in boolean mode the call returns a map of exactly the listed wires,
\* each Bool(true) exactly when its (last) token is "1" or "true" and
\* Bool(false) for every other token, whatever the other parts are.
C2_BoolTokens ==
    (OnList /\ args.arithmetic_type = "bool") =>
        /\ ret.ok
        /\ DOMAIN ret.val = ListNames(args.wire_inputs)
        /\ \A w \in ListNames(args.wire_inputs) :
            ret.val[w] = PBool(LastToken(args.wire_inputs, w) \in {<<"1">>, S_true})

C2_Witness ==
    /\ OnList
    /\ args.arithmetic_type = "bool"
    /\ args.wire_inputs = << <<"a", S_true>>, <<"b", S_x>> >>
    /\ ret.ok
    /\ ret.val["a"] = PBool(TRUE)
    /\ ret.val["b"] = PBool(FALSE)

\* C3: every value of a returned map has the variant of the active mode; in
\* an arithmetic mode of width w it is the integer its token denotes, which
\* lies in 0..2^w-1; a list holding a token whose integer is past 2^w-1
\* returns no map, so no value is stored truncated or widened.
C3_VariantAndRange ==
    OnList =>
        /\ ret.ok =>
            \A w \in DOMAIN ret.val :
                /\ ret.val[w].tag = VariantOf(args.arithmetic_type)
                /\ args.arithmetic_type # "bool" =>
                    LET tok == LastToken(args.wire_inputs, w)
                    IN /\ IsSignedDecimal(tok)
                       /\ ret.val[w].n = IntValue(tok)
                       /\ NumLeq(ret.val[w].n, MaxOf(WidthOf(args.arithmetic_type)))
        /\ args.arithmetic_type # "bool" =>
            \A i \in 1..Len(args.wire_inputs) :
                LET tok == args.wire_inputs[i][2]
                IN (/\ IsSignedDecimal(tok)
                    /\ ~NumLeq(IntValue(tok), MaxOf(WidthOf(args.arithmetic_type))))
                        => ~ret.ok

C3_Witness ==
    /\ OnList
    /\ args.arithmetic_type = "u16"
    /\ args.wire_inputs = << <<"a", S_007>>, <<"b", MAX_U16>> >>
    /\ ret.ok
    /\ ret.val["a"] = PUint("U16", <<"7">>)
    /\ ret.val["b"] = PUint("U16", MAX_U16)

\* C4: with neither an input file nor a (name, value) pair the call returns
\* the empty map without a fault, and every primary input the returned map
\* does not name is seeded with false (boolean mode) or 0 (arithmetic mode).
C4_EmptyMapDefaultFill ==
    /\ (/\ op \in {"get_input_wire_map", "seed"}
        /\ args.inputs_filename = NoFile
        /\ args.wire_inputs = <<>>)
            => /\ ret.ok
               /\ DOMAIN ret.val = {}
    /\ op = "seed" =>
            \A w \in PrimaryInputs \ DOMAIN ret.val :
                store[w] = DefaultValue(args.arithmetic_type)

C4_Witness ==
    /\ op = "seed"
    /\ args.inputs_filename = NoFile
    /\ args.wire_inputs = <<>>
    /\ args.arithmetic_type = "u8"
    /\ \A w \in PrimaryInputs : store[w] = PUint("U8", Zero)

\* C9: a given input file alone decides the map (the call returns what
\* reading the file returns, whatever the pair list holds);
\* otherwise a non-empty pair list gives a map of exactly its wire names,
\* the last part of a repeated name deciding its value; otherwise the map
\* is empty.
C9_SourcePrecedence ==
    op = "get_input_wire_map" =>
        /\ args.inputs_filename # NoFile =>
            LET fromFile == read_input_wires(args.inputs_filename, args.arithmetic_type)
            IN /\ ret.ok = fromFile.ok
               /\ ret.val = fromFile.val
        /\ (args.inputs_filename = NoFile /\ args.wire_inputs # <<>> /\ ret.ok) =>
            /\ DOMAIN ret.val = ListNames(args.wire_inputs)
            /\ \A w \in DOMAIN ret.val :
                ret.val[w] = PartValue(args.arithmetic_type,
                                       LastToken(args.wire_inputs, w)).val
        /\ (args.inputs_filename = NoFile /\ args.wire_inputs = <<>>) =>
            /\ ret.ok
            /\ DOMAIN ret.val = {}

C9_Witness ==
    /\ op = "get_input_wire_map"
    /\ args.inputs_filename = NoFile
    /\ args.arithmetic_type = "u8"
    /\ args.wire_inputs = << <<"a", MAX_U8>>, <<"a", <<"1">> >> >>
    /\ ret.ok
    /\ ret.val = Insert(EmptyMap, "a", PUint("U8", <<"1">>))

\* ------------------------------------------------------------------------
\* Claims about parse_args, decrypt and from_str
\* ------------------------------------------------------------------------

\* C5: the cycle count of accepted arguments is a positive integer: 1 when
\* the option is omitted, and a supplied 0 is rejected.
C5_CyclesPositive ==
    (op = "parse_args" /\ ret.ok) =>
        /\ ret.val.cycles # Zero
        /\ args.cycles = NoText => ret.val.cycles = <<"1">>

\* C6: decrypt of the None variant returns no plaintext (it aborts); decrypt
\* of a variant of width w returns the PtxtType variant of width w, never
\* None or Bool.
C6_DecryptVariants ==
    op = "decrypt" =>
        /\ args.ftag = "None" => ~ret.ok /\ ret = Panic
        /\ args.ftag # "None" =>
            /\ ret.ok
            /\ ret.val.tag = args.ftag
            /\ ret.val.tag \in Widths
            /\ ret.val.n = args.inner

C6_Witness ==
    /\ op = "decrypt"
    /\ args = FNone
    /\ ret = Panic

\* C10 as stated: "None" gives None; a decimal unsigned literal (digits) of
\* value v < 2^128 gives the narrowest variant holding v; every other string
\* gives Err(InvalidInput); Bool is never returned, and the text Display
\* writes for a value other than None does not parse back.
C10_FromStrDigitsOnly ==
    /\ op = "from_str" =>
        IF args = S_None THEN ret.ok /\ ret.val = PNone
        ELSE IF IsDecimal(args) /\ NumLeq(IntValue(args), MAX_U128)
        THEN ret.ok /\ ret.val = PUint(Narrowest(IntValue(args)), IntValue(args))
        ELSE ~ret.ok /\ ret.err = "InvalidInput"
    /\ (op \in {"from_str", "fmt_from_str"} /\ ret.ok) => ret.val.tag # "Bool"
    /\ op = "fmt_from_str" =>
        IF args.p = PNone THEN ret.ok /\ ret.val = PNone ELSE ~ret.ok

\* C10 amended: the same, a literal being a run of digits after at most one
\* leading "+".
C10_FromStrNarrowest ==
    /\ op = "from_str" =>
        IF args = S_None THEN ret.ok /\ ret.val = PNone
        ELSE IF IsSignedDecimal(args) /\ NumLeq(IntValue(args), MAX_U128)
        THEN ret.ok /\ ret.val = PUint(Narrowest(IntValue(args)), IntValue(args))
        ELSE ~ret.ok /\ ret.err = "InvalidInput"
    /\ (op \in {"from_str", "fmt_from_str"} /\ ret.ok) => ret.val.tag # "Bool"
    /\ op = "fmt_from_str" =>
        IF args.p = PNone THEN ret.ok /\ ret.val = PNone ELSE ~ret.ok

C10_Witness ==
    /\ op = "from_str"
    /\ args = S_plus5
    /\ ret.ok
    /\ ret.val = PUint("U8", <<"5">>)

\* ------------------------------------------------------------------------
\* Netlist model and scheduler (circuit module)
\* ------------------------------------------------------------------------

MaxGates == 2
MaxCycles == 3

\* Wire values of boolean mode; VNone marks a wire not yet assigned.
VNone == "None"
VFalse == "false"
VTrue == "true"
ResetValue == VFalse

\* The primary input wire and the output wire of gate g.
In1 == <<"in", 1>>
Out(g) == <<"out", g>>

WiresOf(n) == {In1} \cup {Out(g) : g \in 1..n}

\* A gate: a combinational NAND of one or two wires, or a D flip-flop
\* (registered gate) of one wire; gate g drives the wire Out(g).
GatesOf(n) ==
    [kind : {"NAND"}, ins : {S \in SUBSET WiresOf(n) : Cardinality(S) \in {1, 2}}]
    \cup [kind : {"DFF"}, ins : {{w} : w \in WiresOf(n)}]

Netlists == UNION {[1..n -> GatesOf(n)] : n \in 1..MaxGates}

GateIds(c) == 1..Len(c)

Registered(c) == {g \in GateIds(c) : c[g].kind = "DFF"}

\* The gates producing a non-registered input of gate g.
CombProducers(c, g) ==
    {h \in GateIds(c) : Out(h) \in c[g].ins /\ c[h].kind # "DFF"}

RECURSIVE Upstream(_, _, _)
Upstream(c, S, n) ==
    IF n = 0 THEN S
    ELSE Upstream(c, S \cup UNION {CombProducers(c, h) : h \in S}, n - 1)

\* Load-time validation: the combinational subgraph is acyclic.
Valid(c) ==
    \A g \in GateIds(c) : g \notin Upstream(c, CombProducers(c, g), Len(c))

ValidNetlists == {c \in Netlists : Valid(c)}

SetMax(S) == IF S = {} THEN 0 ELSE CHOOSE m \in S : \A x \in S : x <= m

\* Every gate at one level: no ordering between gates.
Level_Flat(c, g) == 1

\* Levelization: one more than the greatest level of the non-registered
\* producers; primary and registered inputs are available at level 0.
RECURSIVE Level(_, _)
Level(c, g) == 1 + SetMax({Level(c, h) : h \in CombProducers(c, g)})

MaxLevel(c) == SetMax({Level(c, g) : g \in GateIds(c)})

AtLevel(c, k) == {g \in GateIds(c) : Level(c, g) = k}

\* ------------------------------------------------------------------------
\* Evaluator and sequential runner (circuit module)
\* ------------------------------------------------------------------------

\* The store of a cycle: the primary input, the registers' visible values,
\* every other wire unassigned.
FreshStore(c, input, vis) ==
    [w \in WiresOf(Len(c)) |->
        IF w = In1 THEN input
        ELSE IF \E g \in Registered(c) : w = Out(g)
             THEN vis[CHOOSE g \in Registered(c) : w = Out(g)]
        ELSE VNone]

\* NAND of the operands a gate read.
Nand(ops) ==
    IF \A w \in DOMAIN ops : ops[w] = VTrue THEN VFalse ELSE VTrue

\* The registers keeping their value over the cycle boundary.
CommitRegisters_Keep(vis, stg) == vis

\* The cycle boundary: every staged next-value becomes the visible value.
CommitRegisters(vis, stg) == stg

InitRun ==
    /\ LibIdle
    /\ circuit \in ValidNetlists
    /\ N \in 1..MaxCycles
    /\ pin \in {VFalse, VTrue}
    /\ phase = "reset"
    /\ cycle = 0
    /\ level = 0
    /\ gstate = <<>>
    /\ operands = <<>>
    /\ values = <<>>
    /\ visible = <<>>
    /\ staged = <<>>
    /\ startHist = <<>>
    /\ stagedHist = <<>>
    /\ outputs = <<>>
    /\ passes = 0
    /\ commits = 0

\* Reset: registered wires take the reset value before cycle 0.
Reset ==
    /\ phase = "reset"
    /\ visible' = [g \in Registered(circuit) |-> ResetValue]
    /\ phase' = "begin"
    /\ UNCHANGED <<lvars, circuit, N, pin, cycle, level, gstate, operands, values,
                   staged, startHist, stagedHist, outputs, passes, commits>>

\* A pass begins on a fresh store.
BeginCycle ==
    /\ phase = "begin"
    /\ cycle < N
    /\ values' = FreshStore(circuit, pin, visible)
    /\ staged' = [g \in Registered(circuit) |-> VNone]
    /\ gstate' = [g \in GateIds(circuit) |-> "pending"]
    /\ operands' = [g \in GateIds(circuit) |-> <<>>]
    /\ level' = 0
    /\ startHist' = Append(startHist, visible)
    /\ passes' = passes + 1
    /\ phase' = "eval"
    /\ UNCHANGED <<lvars, circuit, N, pin, cycle, visible, stagedHist, outputs, commits>>

\* A gate of the current level starts: it reads its input wires; reading an
\* unassigned wire is a fault that ends the run.
StartGate(g) ==
    /\ phase = "eval"
    /\ Level(circuit, g) = level
    /\ gstate[g] = "pending"
    /\ gstate' = [gstate EXCEPT ![g] = "running"]
    /\ operands' = [operands EXCEPT ![g] = [w \in circuit[g].ins |-> values[w]]]
    /\ phase' = IF \E w \in circuit[g].ins : values[w] = VNone THEN "fault" ELSE "eval"
    /\ UNCHANGED <<lvars, circuit, N, pin, cycle, level, values, visible, staged,
                   startHist, stagedHist, outputs, passes, commits>>

\* A gate completes: a combinational gate writes its output wire, a
\* registered gate stages its wire's next value.
FinishGate(g) ==
    /\ phase = "eval"
    /\ gstate[g] = "running"
    /\ gstate' = [gstate EXCEPT ![g] = "done"]
    /\ IF circuit[g].kind = "DFF"
       THEN /\ staged' = [staged EXCEPT ![g] = operands[g][CHOOSE w \in circuit[g].ins : TRUE]]
            /\ UNCHANGED values
       ELSE /\ values' = [values EXCEPT ![Out(g)] = Nand(operands[g])]
            /\ UNCHANGED staged
    /\ UNCHANGED <<lvars, circuit, N, pin, phase, cycle, level, operands, visible,
                   startHist, stagedHist, outputs, passes, commits>>

\* The barrier between levels.
NextLevel ==
    /\ phase = "eval"
    /\ level < MaxLevel(circuit)
    /\ \A g \in AtLevel(circuit, level) : gstate[g] = "done"
    /\ level' = level + 1
    /\ UNCHANGED <<lvars, circuit, N, pin, phase, cycle, gstate, operands, values,
                   visible, staged, startHist, stagedHist, outputs, passes, commits>>

\* The cycle boundary after the last level: the outputs are snapshotted and
\* the registers committed; the run is done after N cycles.
Commit ==
    /\ phase = "eval"
    /\ level = MaxLevel(circuit)
    /\ \A g \in AtLevel(circuit, level) : gstate[g] = "done"
    /\ outputs' = Append(outputs, values)
    /\ stagedHist' = Append(stagedHist, staged)
    /\ visible' = CommitRegisters(visible, staged)
    /\ commits' = commits + 1
    /\ cycle' = cycle + 1
    /\ phase' = IF cycle + 1 = N THEN "done" ELSE "begin"
    /\ UNCHANGED <<lvars, circuit, N, pin, level, gstate, operands, values, staged,
                   startHist, passes>>

NextRun ==
    \/ Reset
    \/ BeginCycle
    \/ \E g \in GateIds(circuit) : StartGate(g)
    \/ \E g \in GateIds(circuit) : FinishGate(g)
    \/ NextLevel
    \/ Commit

SpecRun == InitRun /\ [][NextRun]_vars

\* ------------------------------------------------------------------------
\* Claims about the sequential runner and the scheduler
\* ------------------------------------------------------------------------

\* The netlist of one D flip-flop whose D input is the primary input.
SingleDFF == <<[kind |-> "DFF", ins |-> {In1}]>>

\* C7: in an N-cycle run with the registers reset to false, the value of
\* every registered wire at the start of cycle c+1 is the next-value staged
\* for it in cycle c's pass (0 <= c < N-1); passes and register commits
\* alternate, one pass per cycle index, and the run is done after exactly N
\* of each; a D flip-flop with D tied to 1 yields [0, 1, 1] for N = 3.
C7_SequentialRun ==
    phase \in {"begin", "eval", "done"} =>
        /\ Len(startHist) = passes
        /\ Len(stagedHist) = commits
        /\ Len(outputs) = commits
        /\ cycle = commits
        /\ passes <= N
        /\ phase = "eval" => passes = commits + 1
        /\ phase = "begin" => passes = commits /\ commits < N
        /\ phase = "done" => passes = N /\ commits = N
        /\ passes >= 1 => \A g \in Registered(circuit) : startHist[1][g] = ResetValue
        /\ \A c \in 1..(passes - 1) :
            \A g \in Registered(circuit) :
                /\ stagedHist[c][g] # VNone
                /\ startHist[c + 1][g] = stagedHist[c][g]
        /\ (phase = "done" /\ circuit = SingleDFF /\ pin = VTrue /\ N = 3) =>
            /\ outputs[1][Out(1)] = VFalse
            /\ outputs[2][Out(1)] = VTrue
            /\ outputs[3][Out(1)] = VTrue

C7_Witness ==
    /\ phase = "done"
    /\ circuit = SingleDFF
    /\ pin = VTrue
    /\ N = 3
    /\ startHist[2][1] = VTrue
    /\ stagedHist[1][1] = VTrue
    /\ outputs[1][Out(1)] = VFalse
    /\ outputs[2][Out(1)] = VTrue

\* C8: for every valid circuit each gate's level is strictly greater than
\* the level of every gate producing one of its non-registered inputs; in a
\* pass no gate starts before every gate of a lower level has completed, and
\* no gate reads an unassigned wire (no uninitialized-wire fault).
C8_LevelOrder ==
    phase # "off" =>
        /\ \A g \in GateIds(circuit) :
            \A h \in CombProducers(circuit, g) : Level(circuit, g) > Level(circuit, h)
        /\ phase # "fault"
        /\ phase = "eval" =>
            \A g \in GateIds(circuit) :
                gstate[g] # "pending" =>
                    /\ \A h \in GateIds(circuit) :
                        Level(circuit, h) < Level(circuit, g) => gstate[h] = "done"
                    /\ \A w \in circuit[g].ins : operands[g][w] # VNone

\* A NAND gate reading the output of a completed NAND gate of the level
\* below while in flight.
C8_Witness ==
    /\ phase = "eval"
    /\ Len(circuit) = 2
    /\ circuit[1].kind = "NAND"
    /\ circuit[2].kind = "NAND"
    /\ Out(1) \in circuit[2].ins
    /\ Level(circuit, 2) = 2
    /\ gstate[1] = "done"
    /\ gstate[2] = "running"
    /\ operands[2][Out(1)] = values[Out(1)]
    /\ values[Out(1)] # VNone

====
